---- MODULE Spec2Model ----
(***************************************************************************)
(* A model of the darksky client (src/darksky.go): the Temperature value   *)
(* type, the context-aware JSON codec of Data, DataSummary and Response,   *)
(* and Service.Get.                                                        *)
(*                                                                         *)
(* Numbers.  A float64 is modelled as an exact rational with denominator   *)
(* Scale: the integer n stands for n / Scale.  Scale = 900 makes every     *)
(* wire value given in hundredths of a degree convert exactly between      *)
(* Fahrenheit, Celsius and Kelvin ((f - 32) * 5 / 9 of a multiple of 9 is   *)
(* an integer), so that rounding noise of the binary format, which the     *)
(* specification puts aside ("within floating precision"), is absent;      *)
(* other values are rounded down by the division.                          *)
(*                                                                         *)
(* JSON.  A wire value is a tagged record: Omitted (the key is missing),   *)
(* Null, Num(n), Str(s), Obj(fields), Arr(elements), and Bad for a         *)
(* well-formed JSON value of a type the destination cannot take.           *)
(***************************************************************************)
EXTENDS Integers, Sequences, FiniteSets, TLC

VARIABLES
    target,   \* the type whose methods the caller exercises
    pc,       \* the method called last ("init" before the first call)
    n,        \* decodes made into the destination so far
    ctx,      \* the context handed to the last call: {} or {unit string}
    input,    \* the wire value handed to the last decode
    dst,      \* the destination / receiver: Temperature, Data, DataSummary or Response
    decErr,   \* the error of the last decode
    err,      \* the error of the last call
    out,      \* the wire value the last encode returned
    call      \* Service.Get: what the last call met and did

vars == <<target, pc, n, ctx, input, dst, decErr, err, out, call>>

\* Bounds of the model.
MaxDecodes == 2
MaxLen == 2

\* ---------------------------------------------------------------- numbers

Scale == 900

Deg(hundredths) == hundredths * (Scale \div 100)

\* 273.15, the offset of lines 286, 300, 307 and 314.
KelvinOffset == Deg(27315)

\* FromCelsuis (sic), line 306.
FromCelsuis(t) == t + KelvinOffset

\* FromFahrenheit, line 299: (temp-32)*5./9. + 273.15
FromFahrenheit(t) == ((t - Deg(3200)) * 5) \div 9 + KelvinOffset

\* Temperature.Celsius, line 285.
Celsius(t) == t - KelvinOffset

\* Temperature.Fahrenheit, line 313: (t-273.15)*9./5. + 32
Fahrenheit(t) == ((t - KelvinOffset) * 9) \div 5 + Deg(3200)

Abs(x) == IF x < 0 THEN 0 - x ELSE x

\* float32(*t), line 265: the significand is cut to 24 bits, ties to even.
\* Magnitudes below 2^25 cover the model's values.
Float32(x) ==
    LET a == Abs(x)
        q == a \div 2
        r == IF a < 16777216 \/ a % 2 = 0 THEN a
             ELSE IF q % 2 = 0 THEN 2 * q ELSE 2 * (q + 1)
    IN IF x < 0 THEN 0 - r ELSE r

\* ------------------------------------------------------------ wire values

Omitted == [k |-> "omitted"]
Null == [k |-> "null"]
Bad == [k |-> "bad"]
Num(x) == [k |-> "num", n |-> x]
Str(x) == [k |-> "str", s |-> x]
Obj(fields) == [k |-> "obj", f |-> fields]
Arr(elems) == [k |-> "arr", a |-> elems]

\* What encoding/json leaves alone: a missing key, and null into a pointer,
\* a slice, a string or a number.
IsAbsent(w) == w.k \in {"omitted", "null"}

\* ---------------------------------------------------------------- errors

\* A Go error, by kind and by what its message names.
NoError == [kind |-> "nil"]
ParseError == [kind |-> "json"]              \* an error of encoding/json
UnitError(u) == [kind |-> "unknown temperature unit", unit |-> u]   \* lines 243, 271
StatusError(code) == [kind |-> "invalid statuscode", code |-> code]     \* line 60
TransportError == [kind |-> "transport"]     \* client.Get's error, line 58
ReadError == [kind |-> "read"]               \* ioutil.ReadAll's error, line 62

\* ------------------------------------------------------------ Temperature

\* UnitOf with the legacy fallback in place of the Kelvin default: no unit,
\* or the empty unit, reads as Celsius.
UnitOf_EmptyIsCelsius(c) ==
    IF c = {} THEN "celsius"
    ELSE LET u == CHOOSE x \in c : TRUE IN IF u = "" THEN "celsius" ELSE u

\* The unit of lines 221-227 and 253-259: "kelvin" unless the context holds
\* a non-empty string under "units/temperature".
UnitOf(c) ==
    IF c = {} THEN "kelvin"
    ELSE LET u == CHOOSE x \in c : TRUE IN IF u = "" THEN "kelvin" ELSE u

\* json.Unmarshal(b, &temp) with temp a zeroed float64 (lines 207, 231):
\* null leaves temp at 0 without an error.
JsonFloat64(b) ==
    IF b.k = "num" THEN [ok |-> TRUE, v |-> b.n]
    ELSE IF b.k = "null" THEN [ok |-> TRUE, v |-> 0]
    ELSE [ok |-> FALSE, v |-> 0]

\* Temperature.UnmarshalJSON, lines 204-215.
Temperature_UnmarshalJSON(t, b) ==
    LET temp == JsonFloat64(b)
    IN IF ~temp.ok THEN [val |-> t, err |-> ParseError]
       ELSE [val |-> FromCelsuis(temp.v), err |-> NoError]

\* Temperature.UnmarshalJSONWithContext with a default case that falls back
\* to Celsius instead of returning the error.
Temperature_UnmarshalJSONWithContext_Fallback(c, t, b) ==
    LET u == IF c = {} THEN "kelvin"
             ELSE LET x == CHOOSE y \in c : TRUE IN IF x = "" THEN "kelvin" ELSE x
        temp == JsonFloat64(b)
    IN IF ~temp.ok THEN [val |-> t, err |-> ParseError]
       ELSE CASE u = "kelvin" -> [val |-> temp.v, err |-> NoError]
              [] u = "fahrenheit" -> [val |-> FromFahrenheit(temp.v), err |-> NoError]
              [] OTHER -> [val |-> FromCelsuis(temp.v), err |-> NoError]

\* Temperature.UnmarshalJSONWithContext, lines 220-247.
Temperature_UnmarshalJSONWithContext(c, t, b) ==
    LET u == UnitOf(c)
        temp == JsonFloat64(b)
    IN IF ~temp.ok THEN [val |-> t, err |-> ParseError]
       ELSE CASE u = "celsius" -> [val |-> FromCelsuis(temp.v), err |-> NoError]
              [] u = "kelvin" -> [val |-> temp.v, err |-> NoError]
              [] u = "fahrenheit" -> [val |-> FromFahrenheit(temp.v), err |-> NoError]
              [] OTHER -> [val |-> t, err |-> UnitError(u)]

\* Temperature.MarshalJSONWithContext, lines 252-273.
Temperature_MarshalJSONWithContext(c, t) ==
    LET u == UnitOf(c)
    IN CASE u = "kelvin" -> [out |-> Num(Float32(t)), err |-> NoError]
         [] u = "celsius" -> [out |-> Num(Celsius(t)), err |-> NoError]
         [] u = "fahrenheit" -> [out |-> Num(Fahrenheit(t)), err |-> NoError]
         [] OTHER -> [out |-> Omitted, err |-> UnitError(u)]

\* ------------------------------------------------------------------- Data

\* The fields of Data (lines 320-344) and tempData (lines 349-373), named by
\* their JSON keys.
StringFields == {"summary", "icon", "precipType"}

FloatFields ==
    {"nearestStormDistance", "precipIntensity", "precipProbability", "humidity",
     "pressure", "windSpeed", "windGust", "windBearing", "cloudCover", "uvIndex",
     "visibility", "ozone"}

PlainFields == StringFields \cup FloatFields

TimeFields == {"time", "temperatureHighTime", "temperatureLowTime"}

TempFields ==
    {"temperature", "apparentTemperature", "dewPoint", "temperatureHigh",
     "temperatureLow"}

RawFields == TimeFields \cup TempFields

DataFields == PlainFields \cup RawFields

\* The tags `omitempty` of tempData.
OmitEmptyFields ==
    {"summary", "precipType", "temperatureLow", "temperatureHighTime",
     "temperatureHigh", "temperatureLowTime"}

\* time.Time{}: no location. time.Unix(t, 0) carries the Local location, so
\* it never equals time.Time{} (lines 404, 468).
ZeroTime == [loc |-> "nil", sec |-> 0]
Unix(t) == [loc |-> "Local", sec |-> t]

ZeroOf(f) ==
    IF f \in StringFields THEN "" ELSE IF f \in TimeFields THEN ZeroTime ELSE 0

\* Data{}
ZeroData == [f \in DataFields |-> ZeroOf(f)]

\* Whether encoding/json stores wire value w in the plain field f.
PlainAccepts(f, w) ==
    \/ IsAbsent(w)
    \/ f \in StringFields /\ w.k = "str"
    \/ f \in FloatFields /\ w.k = "num"

PlainValue(f, w) ==
    IF w.k = "str" THEN w.s ELSE IF w.k = "num" THEN w.n ELSE ZeroOf(f)

\* td := tempData{}; json.Unmarshal(b, &td), lines 376-380. A plain field
\* takes its value, a *json.RawMessage field keeps the bytes (nil for a
\* missing key or null); null for the whole object leaves td zeroed.
JsonTempData(b) ==
    IF b.k = "null"
      THEN [ok |-> TRUE,
            td |-> [f \in DataFields |-> IF f \in PlainFields THEN ZeroOf(f) ELSE Omitted]]
    ELSE IF b.k # "obj" \/ \E f \in PlainFields : ~PlainAccepts(f, b.f[f])
      THEN [ok |-> FALSE, td |-> ZeroData]
    ELSE [ok |-> TRUE,
          td |-> [f \in DataFields |->
                    IF f \in PlainFields THEN PlainValue(f, b.f[f])
                    ELSE IF IsAbsent(b.f[f]) THEN Omitted ELSE b.f[f]]]

\* The order of lines 400-444.
DecodeOrder ==
    <<"time", "temperatureHighTime", "temperatureLowTime", "temperature",
      "apparentTemperature", "dewPoint", "temperatureLow", "temperatureHigh">>

\* One `if td.X == nil {} else if err := ...` of lines 400-444.
DataDecodeField(c, d, f, raw) ==
    IF raw.k = "omitted" THEN [val |-> d, err |-> NoError]
    ELSE IF f \in TimeFields
      THEN IF raw.k = "num"
             THEN [val |-> [d EXCEPT ![f] = Unix(raw.n)], err |-> NoError]
             ELSE [val |-> d, err |-> ParseError]
    ELSE LET res == Temperature_UnmarshalJSONWithContext(c, d[f], raw)
         IN [val |-> [d EXCEPT ![f] = res.val], err |-> res.err]

RECURSIVE DataDecodeFrom(_, _, _, _)
DataDecodeFrom(c, td, d, i) ==
    IF i > Len(DecodeOrder) THEN [val |-> d, err |-> NoError]
    ELSE LET res == DataDecodeField(c, d, DecodeOrder[i], td[DecodeOrder[i]])
         IN IF res.err # NoError THEN res ELSE DataDecodeFrom(c, td, res.val, i + 1)

\* Data.UnmarshalJSONWithContext, lines 375-447.
Data_UnmarshalJSONWithContext(c, d, b) ==
    LET p == JsonTempData(b)
    IN IF ~p.ok THEN [val |-> d, err |-> ParseError]
       ELSE DataDecodeFrom(c, p.td,
                [f \in DataFields |-> IF f \in PlainFields THEN p.td[f] ELSE d[f]], 1)

\* The order of lines 489-522.
EncodeOrder ==
    <<"temperature", "apparentTemperature", "dewPoint", "temperatureHigh",
      "temperatureLow">>

\* The tempData of lines 450-487: the plain fields, the times that are set
\* as Unix seconds, every other *json.RawMessage nil.
TempDataOf(d) ==
    [f \in DataFields |->
        IF f \in PlainFields THEN d[f]
        ELSE IF f \in TimeFields /\ d[f] # ZeroTime THEN Num(d[f].sec)
        ELSE Omitted]

\* json.Marshal(td), line 524: a nil pointer is null, or left out under
\* omitempty, as is an empty string.
JsonOfTempData(td) ==
    Obj([f \in DataFields |->
        IF f \in StringFields
          THEN IF td[f] = "" /\ f \in OmitEmptyFields THEN Omitted ELSE Str(td[f])
        ELSE IF f \in FloatFields THEN Num(td[f])
        ELSE IF td[f] = Omitted
          THEN IF f \in OmitEmptyFields THEN Omitted ELSE Null
        ELSE td[f]])

\* DataEncodeFrom without the tests `d.X == (Temperature(0))`: a field
\* that holds 0 Kelvin is converted and emitted like any other.
RECURSIVE DataEncodeFrom_EmitZero(_, _, _, _)
DataEncodeFrom_EmitZero(c, d, td, i) ==
    IF i > Len(EncodeOrder) THEN [out |-> JsonOfTempData(td), err |-> NoError]
    ELSE LET res == Temperature_MarshalJSONWithContext(c, d[EncodeOrder[i]])
         IN IF res.err # NoError THEN [out |-> Omitted, err |-> res.err]
            ELSE DataEncodeFrom_EmitZero(c, d, [td EXCEPT ![EncodeOrder[i]] = res.out], i + 1)

RECURSIVE DataEncodeFrom(_, _, _, _)
DataEncodeFrom(c, d, td, i) ==
    IF i > Len(EncodeOrder) THEN [out |-> JsonOfTempData(td), err |-> NoError]
    ELSE LET f == EncodeOrder[i]
         IN IF d[f] = 0 THEN DataEncodeFrom(c, d, td, i + 1)
            ELSE LET res == Temperature_MarshalJSONWithContext(c, d[f])
                 IN IF res.err # NoError THEN [out |-> Omitted, err |-> res.err]
                    ELSE DataEncodeFrom(c, d, [td EXCEPT ![f] = res.out], i + 1)

\* Data.MarshalJSONWithContext, lines 449-525.
Data_MarshalJSONWithContext(c, d) == DataEncodeFrom(c, d, TempDataOf(d), 1)

\* ------------------------------------------------------------ DataSummary

\* DataSummary{}: a nil slice.
ZeroDataSummary == [summary |-> "", icon |-> "", data |-> <<>>]

\* json.Unmarshal(b, &td) into tempDataSummary, lines 560-564: the elements
\* are kept as *json.RawMessage, nil for null.
JsonTempDataSummary(b) ==
    IF b.k = "null" THEN [ok |-> TRUE, summary |-> "", icon |-> "", data |-> <<>>]
    ELSE IF \/ b.k # "obj"
            \/ ~PlainAccepts("summary", b.f.summary)
            \/ ~PlainAccepts("icon", b.f.icon)
            \/ ~(IsAbsent(b.f.data) \/ b.f.data.k = "arr")
      THEN [ok |-> FALSE, summary |-> "", icon |-> "", data |-> <<>>]
    ELSE [ok |-> TRUE,
          summary |-> PlainValue("summary", b.f.summary),
          icon |-> PlainValue("icon", b.f.icon),
          data |-> IF IsAbsent(b.f.data) THEN <<>> ELSE b.f.data.a]

\* DataSummaryDecodeFrom with `continue` for a nil element: no record is
\* appended for null and the later records move up.
RECURSIVE DataSummaryDecodeFrom_SkipNull(_, _, _, _)
DataSummaryDecodeFrom_SkipNull(c, raws, ds, i) ==
    IF i > Len(raws) THEN [val |-> ds, err |-> NoError]
    ELSE IF raws[i].k = "null" THEN DataSummaryDecodeFrom_SkipNull(c, raws, ds, i + 1)
    ELSE LET res == Data_UnmarshalJSONWithContext(c, ZeroData, raws[i])
         IN IF res.err # NoError THEN [val |-> ds, err |-> res.err]
            ELSE DataSummaryDecodeFrom_SkipNull(c, raws,
                     [ds EXCEPT !.data = Append(@, res.val)], i + 1)

\* The loop of lines 570-579 from element i on.
RECURSIVE DataSummaryDecodeFrom(_, _, _, _)
DataSummaryDecodeFrom(c, raws, ds, i) ==
    IF i > Len(raws) THEN [val |-> ds, err |-> NoError]
    ELSE LET res == IF raws[i].k = "null" THEN [val |-> ZeroData, err |-> NoError]
                    ELSE Data_UnmarshalJSONWithContext(c, ZeroData, raws[i])
         IN IF res.err # NoError THEN [val |-> ds, err |-> res.err]
            ELSE DataSummaryDecodeFrom(c, raws,
                     [ds EXCEPT !.data = Append(@, res.val)], i + 1)

\* DataSummary.UnmarshalJSONWithContext, lines 559-582.
DataSummary_UnmarshalJSONWithContext(c, ds, b) ==
    LET p == JsonTempDataSummary(b)
    IN IF ~p.ok THEN [val |-> ds, err |-> ParseError]
       ELSE DataSummaryDecodeFrom(c, p.data,
                [summary |-> p.summary, icon |-> p.icon, data |-> <<>>], 1)

\* The loop of lines 548-554 from record i on.
RECURSIVE DataSummaryEncodeFrom(_, _, _, _)
DataSummaryEncodeFrom(c, ds, raws, i) ==
    IF i > Len(ds.data)
      THEN [out |-> Obj([summary |-> Str(ds.summary), icon |-> Str(ds.icon),
                         data |-> IF raws = <<>> THEN Null ELSE Arr(raws)]),
            err |-> NoError]
    ELSE LET res == Data_MarshalJSONWithContext(c, ds.data[i])
         IN IF res.err # NoError THEN [out |-> Omitted, err |-> res.err]
            ELSE DataSummaryEncodeFrom(c, ds, Append(raws, res.out), i + 1)

\* DataSummary.MarshalJSONWithContext, lines 542-557. td.Data stays a nil
\* slice when there is no record, and json.Marshal writes a nil slice as null.
DataSummary_MarshalJSONWithContext(c, ds) == DataSummaryEncodeFrom(c, ds, <<>>, 1)

\* --------------------------------------------------------------- Response

SlotKeys == <<"currently", "minutely", "hourly", "daily">>

GroupKeys == {"minutely", "hourly", "daily"}

RootStringFields == {"timezone"}

RootNumFields == {"latitude", "longitude", "offset"}

RootPlainFields == RootStringFields \cup RootNumFields

FlagsFields == {"sources", "nearest-station", "units"}

ResponseFields == RootPlainFields \cup {"flags", "currently", "minutely", "hourly", "daily"}

\* Flags{}
ZeroFlags == [f \in FlagsFields |-> IF f = "sources" THEN <<>> ELSE IF f = "units" THEN "" ELSE 0]

\* Response{}
ZeroResponse ==
    [f \in ResponseFields |->
        IF f \in RootStringFields THEN ""
        ELSE IF f \in RootNumFields THEN 0
        ELSE IF f = "flags" THEN ZeroFlags
        ELSE IF f = "currently" THEN ZeroData
        ELSE ZeroDataSummary]

RootAccepts(f, w) ==
    \/ IsAbsent(w)
    \/ f \in RootStringFields /\ w.k = "str"
    \/ f \in RootNumFields /\ w.k = "num"

RootValue(f, w) ==
    IF w.k = "str" THEN w.s ELSE IF w.k = "num" THEN w.n
    ELSE IF f \in RootStringFields THEN "" ELSE 0

\* encoding/json on the Flags of lines 88-92.
FlagsAccepts(w) ==
    \/ IsAbsent(w)
    \/ /\ w.k = "obj"
       /\ IsAbsent(w.f["sources"]) \/ w.f["sources"].k = "arr"
       /\ IsAbsent(w.f["nearest-station"]) \/ w.f["nearest-station"].k = "num"
       /\ IsAbsent(w.f["units"]) \/ w.f["units"].k = "str"

FlagsValue(w) ==
    IF IsAbsent(w) THEN ZeroFlags
    ELSE [f \in FlagsFields |->
            IF IsAbsent(w.f[f]) THEN ZeroFlags[f]
            ELSE IF f = "sources" THEN w.f[f].a
            ELSE IF f = "units" THEN w.f[f].s
            ELSE w.f[f].n]

JsonOfFlags(fl) ==
    Obj([f \in FlagsFields |->
            IF f = "sources" THEN (IF fl[f] = <<>> THEN Null ELSE Arr(fl[f]))
            ELSE IF f = "units" THEN Str(fl[f])
            ELSE Num(fl[f])])

\* tr := tempResponse{}; json.Unmarshal(b, &tr), lines 107-111. The four
\* slots are *json.RawMessage: nil for a missing key or null.
JsonTempResponse(b) ==
    IF b.k = "null"
      THEN [ok |-> TRUE,
            tr |-> [f \in ResponseFields |->
                      IF f \in RootPlainFields \/ f = "flags" THEN ZeroResponse[f]
                      ELSE Omitted]]
    ELSE IF \/ b.k # "obj"
            \/ \E f \in RootPlainFields : ~RootAccepts(f, b.f[f])
            \/ ~FlagsAccepts(b.f["flags"])
      THEN [ok |-> FALSE, tr |-> ZeroResponse]
    ELSE [ok |-> TRUE,
          tr |-> [f \in ResponseFields |->
                    IF f \in RootPlainFields THEN RootValue(f, b.f[f])
                    ELSE IF f = "flags" THEN FlagsValue(b.f[f])
                    ELSE IF IsAbsent(b.f[f]) THEN Omitted ELSE b.f[f]]]

\* UnitsContext comparing against "US": no selector the service sends
\* selects Fahrenheit.
UnitsContext_UpperCase(units) == IF units = "US" THEN {"fahrenheit"} ELSE {"celsius"}

\* The switch of lines 121-126 and 154-159: the value stored in the context
\* under "units/temperature".
UnitsContext(units) == IF units = "us" THEN {"fahrenheit"} ELSE {"celsius"}

\* One `if tr.X == nil {} else if err := r.X.UnmarshalJSONWithContext(...)`
\* of lines 128-146.
ResponseDecodeSlot(c, r, key, raw) ==
    IF raw.k = "omitted" THEN [val |-> r, err |-> NoError]
    ELSE LET res == IF key = "currently"
                      THEN Data_UnmarshalJSONWithContext(c, r[key], raw)
                      ELSE DataSummary_UnmarshalJSONWithContext(c, r[key], raw)
         IN [val |-> [r EXCEPT ![key] = res.val], err |-> res.err]

RECURSIVE ResponseDecodeFrom(_, _, _, _)
ResponseDecodeFrom(c, tr, r, i) ==
    IF i > Len(SlotKeys) THEN [val |-> r, err |-> NoError]
    ELSE LET res == ResponseDecodeSlot(c, r, SlotKeys[i], tr[SlotKeys[i]])
         IN IF res.err # NoError THEN res ELSE ResponseDecodeFrom(c, tr, res.val, i + 1)

\* Response.UnmarshalJSON, lines 106-149.
Response_UnmarshalJSON(r, b) ==
    LET p == JsonTempResponse(b)
    IN IF ~p.ok THEN [val |-> r, err |-> ParseError]
       ELSE ResponseDecodeFrom(UnitsContext(p.tr["flags"]["units"]), p.tr,
                [f \in ResponseFields |->
                    IF f \in RootPlainFields \/ f = "flags" THEN p.tr[f] ELSE r[f]], 1)

\* One `if b, err := r.X.MarshalJSONWithContext(ctx)` of lines 169-191.
ResponseEncodeSlot(c, r, key) ==
    IF key = "currently" THEN Data_MarshalJSONWithContext(c, r[key])
    ELSE DataSummary_MarshalJSONWithContext(c, r[key])

RECURSIVE ResponseEncodeFrom(_, _, _, _)
ResponseEncodeFrom(c, r, tr, i) ==
    IF i > Len(SlotKeys)
      THEN [out |-> Obj([f \in ResponseFields |->
                           IF f \in RootStringFields THEN Str(tr[f])
                           ELSE IF f \in RootNumFields THEN Num(tr[f])
                           ELSE IF f = "flags" THEN JsonOfFlags(tr[f])
                           ELSE IF tr[f] = Omitted THEN Null
                           ELSE tr[f]]),
            err |-> NoError]
    ELSE LET res == ResponseEncodeSlot(c, r, SlotKeys[i])
         IN IF res.err # NoError THEN [out |-> Omitted, err |-> res.err]
            ELSE ResponseEncodeFrom(c, r, [tr EXCEPT ![SlotKeys[i]] = res.out], i + 1)

\* Response.MarshalJSON, lines 151-194.
Response_MarshalJSON(r) ==
    ResponseEncodeFrom(UnitsContext(r["flags"]["units"]), r,
        [f \in ResponseFields |->
            IF f \in RootPlainFields \/ f = "flags" THEN r[f] ELSE Omitted], 1)

\* ---------------------------------------------------------------- Service

\* What the transport hands to one call of Get: client.Get's outcome, the
\* status code, ioutil.ReadAll's outcome and the body.
NoCall == [sent |-> FALSE, transportOK |-> TRUE, status |-> 0, readOK |-> TRUE,
           bodyRead |-> FALSE, parsed |-> FALSE]

\* Service.Get without the branch of line 59: the body is read and parsed
\* whatever the status.
Service_Get_NoStatusCheck(transportOK, status, readOK, body) ==
    IF ~transportOK
      THEN [ret |-> ZeroResponse, err |-> TransportError, bodyRead |-> FALSE, parsed |-> FALSE]
    ELSE IF ~readOK
      THEN [ret |-> ZeroResponse, err |-> ReadError, bodyRead |-> TRUE, parsed |-> FALSE]
    ELSE LET res == Response_UnmarshalJSON(ZeroResponse, body)
         IN [ret |-> res.val, err |-> res.err, bodyRead |-> TRUE, parsed |-> TRUE]

\* Service.Get, lines 42-68: the if / else-if chain of lines 57-65.
Service_Get(transportOK, status, readOK, body) ==
    IF ~transportOK
      THEN [ret |-> ZeroResponse, err |-> TransportError, bodyRead |-> FALSE, parsed |-> FALSE]
    ELSE IF status \div 100 # 2
      THEN [ret |-> ZeroResponse, err |-> StatusError(status), bodyRead |-> FALSE, parsed |-> FALSE]
    ELSE IF ~readOK
      THEN [ret |-> ZeroResponse, err |-> ReadError, bodyRead |-> TRUE, parsed |-> FALSE]
    ELSE LET res == Response_UnmarshalJSON(ZeroResponse, body)
         IN [ret |-> res.val, err |-> res.err, bodyRead |-> TRUE, parsed |-> TRUE]

\* ----------------------------------------------------------------- inputs

\* Wire scalars: 72, 22, and the two that convert to 0 Kelvin; for the
\* Temperature type also 0 and a value float32 cannot hold.
T72 == Deg(7200)
T22 == Deg(2200)
CZero == Deg(-27315)
FZero == Deg(-45967)
TBig == 16777216 + 1

\* The context values: none, or a string under "units/temperature".
Contexts == {{}} \cup {{u} : u \in {"", "kelvin", "celsius", "fahrenheit", "xyz", "us"}}

TemperatureInputs == {Null, Bad} \cup {Num(x) : x \in {T72, T22, CZero, FZero, 0, TBig}}

\* A wire object of a record: the keys of `over`, every other key missing.
Rec(over) == Obj([f \in DataFields |-> IF f \in DOMAIN over THEN over[f] ELSE Omitted])

SamplePlain ==
    [f \in PlainFields |-> IF f \in StringFields THEN Str("clear") ELSE Num(5)]

SampleTemp ==
    [temperature |-> Deg(7200), apparentTemperature |-> Deg(7000), dewPoint |-> Deg(5000),
     temperatureHigh |-> Deg(8000), temperatureLow |-> Deg(6000)]

RecEmpty == Rec([f \in {} |-> Omitted])

RecFull ==
    Rec(SamplePlain @@ [f \in TempFields |-> Num(SampleTemp[f])]
        @@ [time |-> Num(1000), temperatureHighTime |-> Num(2000),
            temperatureLowTime |-> Num(3000)])

RecZeroK ==
    Rec([temperature |-> Num(CZero), dewPoint |-> Num(FZero),
         apparentTemperature |-> Num(T22), time |-> Num(1000)])

RecBadTemp ==
    Rec(SamplePlain @@ [time |-> Num(4000), temperature |-> Num(T22),
                        dewPoint |-> Bad, temperatureHigh |-> Num(T72)])

RecBadTime == Rec([time |-> Bad, temperature |-> Num(T72)])

RecBadPlain == Rec([humidity |-> Bad, temperature |-> Num(T72)])

RecNulls ==
    Rec([temperature |-> Null, time |-> Null, summary |-> Null,
         apparentTemperature |-> Num(T22)])

RecOne(f, w) == Rec([g \in {f} |-> w])

DataInputs ==
    {Null, Bad, RecEmpty, RecFull, RecZeroK, RecBadTemp, RecBadTime, RecBadPlain, RecNulls}
    \cup {RecOne(f, Num(IF f = "temperatureLow" THEN TBig ELSE T72)) : f \in TempFields}

DataContexts == {{}} \cup {{u} : u \in {"celsius", "fahrenheit", "xyz"}}

SeqsUpTo(S, m) == UNION {[1..k -> S] : k \in 0..m}

Group(summary, data) == Obj([summary |-> summary, icon |-> Str("rain"), data |-> data])

GroupElements == {Null, RecFull, RecBadTemp}

GroupInputs ==
    {Null, Bad, Group(Bad, Null), Group(Omitted, Omitted), Group(Str("week"), Null),
     Group(Str("week"), Bad)}
    \cup {Group(Str("week"), Arr(s)) : s \in SeqsUpTo(GroupElements, MaxLen)}

GroupContexts == {{u} : u \in {"fahrenheit", "xyz"}}

GSample == Group(Str("week"), Arr(<<RecFull, Null>>))
GZeroK == Group(Str("week"), Arr(<<RecZeroK>>))
GBadElem == Group(Str("week"), Arr(<<RecFull, RecBadTemp>>))
GNullData == Group(Str("week"), Null)
GEmpty == Group(Str("week"), Arr(<<>>))

FlagsOf(units) ==
    Obj([f \in FlagsFields |->
            IF f = "sources" THEN Arr(<<"isd">>)
            ELSE IF f = "units" THEN units
            ELSE Num(7)])

RootSample ==
    [latitude |-> Num(41), longitude |-> Num(-87), timezone |-> Str("UTC"), offset |-> Num(-5)]

Doc(root, flags, slots) ==
    Obj([f \in ResponseFields |->
            IF f \in DOMAIN root THEN root[f]
            ELSE IF f = "flags" THEN flags
            ELSE IF f \in DOMAIN slots THEN slots[f]
            ELSE Omitted])

NoFields == [f \in {} |-> Omitted]

\* Every choice of present slots, in both unit systems.
DocsPresence ==
    {Doc(RootSample, FlagsOf(Str(u)),
         [f \in S |-> IF f = "currently" THEN RecFull ELSE GSample]) :
        u \in {"us"},
        S \in SUBSET {"currently", "minutely", "hourly", "daily"}}

\* Every unit-system selector, absent ones included.
DocsUnits ==
    {Doc(RootSample, fl, [currently |-> RecFull, hourly |-> GSample, daily |-> GZeroK]) :
        fl \in {Omitted, Null, FlagsOf(Omitted), FlagsOf(Str("")), FlagsOf(Str("xyz")),
                FlagsOf(Str("ca"))}}

\* One slot that is null, empty, malformed or holds 0 Kelvin.
DocsSpecial ==
    {Doc(RootSample, FlagsOf(Str(u)), [currently |-> c, hourly |-> GSample]) :
        u \in {"us", "ca"}, c \in {Null, Bad, RecEmpty, RecZeroK, RecBadTemp}}
    \cup {Doc(RootSample, FlagsOf(Str("us")), [currently |-> RecFull] @@ [f \in {g} |-> w]) :
            g \in GroupKeys, w \in {Null, Bad, GBadElem, GEmpty}}

\* A body that is no JSON object, and objects json.Unmarshal rejects.
DocsMalformed ==
    {Bad, Null, Doc(NoFields, Omitted, NoFields),
     Doc([latitude |-> Bad], FlagsOf(Str("us")), [currently |-> RecFull]),
     Doc(RootSample, Bad, [currently |-> RecFull]),
     Doc(RootSample, FlagsOf(Num(1)), [currently |-> RecFull])}

Docs == DocsPresence \cup DocsUnits \cup DocsSpecial \cup DocsMalformed

StatusCodes == {199, 200, 204, 299, 300, 404, 500}

DocFull ==
    Doc(RootSample, FlagsOf(Str("us")),
        [currently |-> RecFull, minutely |-> GSample, hourly |-> GSample, daily |-> GSample])

\* What the transport answers: no response at all, or a status code with a
\* body that can or cannot be read to its end.
Replies ==
    {[transportOK |-> FALSE, status |-> 0, readOK |-> FALSE, body |-> Omitted]}
    \cup {[transportOK |-> TRUE, status |-> s, readOK |-> r, body |-> b] :
            s \in StatusCodes, r \in BOOLEAN, b \in {DocFull, Bad}}
    \cup {[transportOK |-> TRUE, status |-> 200, readOK |-> TRUE, body |-> b] :
            b \in DocsSpecial \cup DocsMalformed}

\* ------------------------------------------------------------------ state

Targets == {"Temperature", "Data", "DataSummary", "Response", "Service"}

ZeroValue(t) ==
    CASE t = "Temperature" -> 0
      [] t = "Data" -> ZeroData
      [] t = "DataSummary" -> ZeroDataSummary
      [] OTHER -> ZeroResponse

Init ==
    /\ target \in Targets
    /\ pc = "init"
    /\ n = 0
    /\ ctx = {}
    /\ input = Omitted
    /\ dst = ZeroValue(target)
    /\ decErr = NoError
    /\ err = NoError
    /\ out = Omitted
    /\ call = NoCall

\* A decode of b into the destination that returned res.
Decoded(method, c, b, res) ==
    /\ pc' = method
    /\ n' = n + 1
    /\ ctx' = c
    /\ input' = b
    /\ dst' = res.val
    /\ decErr' = res.err
    /\ err' = res.err
    /\ out' = Omitted
    /\ UNCHANGED <<target, call>>

\* An encode of the receiver that returned res.
Encoded(method, c, res) ==
    /\ pc' = method
    /\ ctx' = c
    /\ err' = res.err
    /\ out' = res.out
    /\ UNCHANGED <<target, n, input, dst, decErr, call>>

TemperatureUnmarshalJSON ==
    /\ target = "Temperature"
    /\ n < MaxDecodes
    /\ \E b \in TemperatureInputs :
          \E res \in {Temperature_UnmarshalJSON(dst, b)} :
             Decoded("Temperature.UnmarshalJSON", {}, b, res)

TemperatureUnmarshalJSONWithContext ==
    /\ target = "Temperature"
    /\ n < MaxDecodes
    /\ \E c \in Contexts, b \in TemperatureInputs :
          \E res \in {Temperature_UnmarshalJSONWithContext(c, dst, b)} :
             Decoded("Temperature.UnmarshalJSONWithContext", c, b, res)

TemperatureMarshalJSONWithContext ==
    /\ target = "Temperature"
    /\ \E c \in Contexts :
          \E res \in {Temperature_MarshalJSONWithContext(c, dst)} :
             Encoded("Temperature.MarshalJSONWithContext", c, res)

DataUnmarshalJSONWithContext ==
    /\ target = "Data"
    /\ n < MaxDecodes
    /\ \E c \in DataContexts, b \in DataInputs :
          \E res \in {Data_UnmarshalJSONWithContext(c, dst, b)} :
             Decoded("Data.UnmarshalJSONWithContext", c, b, res)

DataMarshalJSONWithContext ==
    /\ target = "Data"
    /\ \E c \in DataContexts :
          \E res \in {Data_MarshalJSONWithContext(c, dst)} :
             Encoded("Data.MarshalJSONWithContext", c, res)

DataSummaryUnmarshalJSONWithContext ==
    /\ target = "DataSummary"
    /\ n < MaxDecodes
    /\ \E c \in GroupContexts, b \in GroupInputs :
          \E res \in {DataSummary_UnmarshalJSONWithContext(c, dst, b)} :
             Decoded("DataSummary.UnmarshalJSONWithContext", c, b, res)

DataSummaryMarshalJSONWithContext ==
    /\ target = "DataSummary"
    /\ \E c \in GroupContexts :
          \E res \in {DataSummary_MarshalJSONWithContext(c, dst)} :
             Encoded("DataSummary.MarshalJSONWithContext", c, res)

ResponseUnmarshalJSON ==
    /\ target = "Response"
    /\ n < MaxDecodes
    /\ \E b \in Docs :
          \E res \in {Response_UnmarshalJSON(dst, b)} :
             Decoded("Response.UnmarshalJSON", {}, b, res)

ResponseMarshalJSON ==
    /\ target = "Response"
    /\ \E res \in {Response_MarshalJSON(dst)} :
          Encoded("Response.MarshalJSON", {}, res)

\* Service.Get: ret := Response{} is fresh on every call.
ServiceGet ==
    /\ target = "Service"
    /\ \E reply \in Replies :
          \E res \in {Service_Get(reply.transportOK, reply.status, reply.readOK, reply.body)} :
             /\ pc' = "Service.Get"
             /\ call' = [sent |-> TRUE, transportOK |-> reply.transportOK,
                         status |-> reply.status, readOK |-> reply.readOK,
                         bodyRead |-> res.bodyRead, parsed |-> res.parsed]
             /\ input' = reply.body
             /\ dst' = res.ret
             /\ decErr' = res.err
             /\ err' = res.err
             /\ UNCHANGED <<target, n, ctx, out>>

Next ==
    \/ TemperatureUnmarshalJSON
    \/ TemperatureUnmarshalJSONWithContext
    \/ TemperatureMarshalJSONWithContext
    \/ DataUnmarshalJSONWithContext
    \/ DataMarshalJSONWithContext
    \/ DataSummaryUnmarshalJSONWithContext
    \/ DataSummaryMarshalJSONWithContext
    \/ ResponseUnmarshalJSON
    \/ ResponseMarshalJSON
    \/ ServiceGet

Spec == Init /\ [][Next]_vars

\* ------------------------------------------------------------- properties

\* The unit-system selector a wire document carries: "" when flags or
\* flags.units is missing or null.
WireUnits(b) ==
    IF b.k = "obj" /\ b.f["flags"].k = "obj" /\ b.f["flags"].f["units"].k = "str"
      THEN b.f["flags"].f["units"].s
      ELSE ""

\* The conversions the root's unit-system selector stands for.
SelectedKelvin(units, v) ==
    IF units = "us" THEN ((v - Deg(3200)) * 5) \div 9 + Deg(27315) ELSE v + Deg(27315)

SelectedWire(units, t) ==
    IF units = "us" THEN ((t - Deg(27315)) * 9) \div 5 + Deg(3200) ELSE t - Deg(27315)

\* Every temperature scalar of wire record w is stored in d under `units`.
RecordDecodedAs(units, w, d) ==
    w.k = "obj" =>
        \A f \in TempFields : w.f[f].k = "num" => d[f] = SelectedKelvin(units, w.f[f].n)

\* Every temperature of d that is emitted in wire record w is emitted under `units`.
RecordEncodedAs(units, d, w) ==
    \A f \in TempFields : d[f] # 0 => w.k = "obj" /\ w.f[f] = Num(SelectedWire(units, d[f]))

\* The call before this state decoded `input` into the Response dst.
ResponseDecoded ==
    \/ target = "Response" /\ pc = "Response.UnmarshalJSON"
    \/ target = "Service" /\ pc = "Service.Get" /\ call.parsed

\* dst was decoded from `input` into a zero Response without error and has
\* been encoded, unmodified, into `out`.
RoundTripped ==
    /\ target = "Response"
    /\ pc = "Response.MarshalJSON"
    /\ n = 1
    /\ decErr = NoError
    /\ err = NoError
    /\ input.k = "obj"

\* C1: a Response decode stores every temperature scalar of `currently` and
\* of every record of `minutely`, `hourly` and `daily` under the unit the
\* root derives from flags.units (fahrenheit iff "us", else celsius), and a
\* Response encode emits every temperature under that unit.
Thm_C1 ==
    /\ (ResponseDecoded /\ decErr = NoError /\ input.k = "obj") =>
          /\ RecordDecodedAs(WireUnits(input), input.f["currently"], dst["currently"])
          /\ \A g \in GroupKeys :
                (input.f[g].k = "obj" /\ input.f[g].f.data.k = "arr") =>
                    /\ Len(dst[g].data) = Len(input.f[g].f.data.a)
                    /\ \A i \in 1..Len(dst[g].data) :
                          RecordDecodedAs(WireUnits(input), input.f[g].f.data.a[i],
                                          dst[g].data[i])
    /\ (target = "Response" /\ pc = "Response.MarshalJSON" /\ err = NoError) =>
          /\ RecordEncodedAs(dst["flags"]["units"], dst["currently"], out.f["currently"])
          /\ \A g \in GroupKeys : \A i \in 1..Len(dst[g].data) :
                /\ out.f[g].f.data.k = "arr"
                /\ RecordEncodedAs(dst["flags"]["units"], dst[g].data[i],
                                   out.f[g].f.data.a[i])

\* C1 reached: a "us" document with temperatures in `currently` and in a
\* group, decoded as Fahrenheit and encoded as Fahrenheit.
Witness_C1 ==
    /\ RoundTripped
    /\ WireUnits(input) = "us"
    /\ input.f["currently"] = RecFull
    /\ dst["currently"]["temperature"] = FromFahrenheit(T72)
    /\ out.f["currently"].f["temperature"] = Num(T72)
    /\ Len(dst["daily"].data) = 2
    /\ dst["daily"].data[1]["dewPoint"] = FromFahrenheit(Deg(5000))
    /\ out.f["daily"].f.data.a[1].f["dewPoint"] = Num(Deg(5000))

\* A temperature scalar of wire record w is in o again, with the same value.
RecordRoundTrip(w, o) ==
    w.k = "obj" =>
        \A f \in TempFields : w.f[f].k = "num" => o.k = "obj" /\ o.f[f] = w.f[f]

\* C2: decoding a document and encoding the unmodified result emits every
\* temperature scalar of the document again with an equal value, the one
\* that converts to 0 Kelvin included.
Cex_C2 ==
    RoundTripped =>
        /\ RecordRoundTrip(input.f["currently"], out.f["currently"])
        /\ \A g \in GroupKeys :
              (input.f[g].k = "obj" /\ input.f[g].f.data.k = "arr") =>
                  \A i \in 1..Len(input.f[g].f.data.a) :
                      /\ out.f[g].f.data.k = "arr"
                      /\ i <= Len(out.f[g].f.data.a)
                      /\ RecordRoundTrip(input.f[g].f.data.a[i], out.f[g].f.data.a[i])

\* C3: the slots present in the output of encode(decode(doc)) are the slots
\* present in doc.
Cex_C3 ==
    RoundTripped =>
        {s \in {"currently", "minutely", "hourly", "daily"} : out.f[s].k # "omitted"}
            = {s \in {"currently", "minutely", "hourly", "daily"} : ~IsAbsent(input.f[s])}

\* The units a Temperature decode or encode knows.
KnownUnits == {"kelvin", "celsius", "fahrenheit"}

\* The context names a unit, and the unit is none of the known ones.
UnknownUnit(c) == c # {} /\ \A u \in c : u \notin KnownUnits \cup {""}

\* C4, as stated: an unrecognized unit token fails the operation with the
\* unrecognized-unit error, as the root's flags.units ("xyz") and as the
\* unit of the context of a Temperature decode or encode.
Cex_C4 ==
    /\ (ResponseDecoded /\ WireUnits(input) = "xyz") => decErr.kind = "unknown temperature unit"
    /\ (target = "Temperature" /\ pc = "Temperature.UnmarshalJSONWithContext"
            /\ UnknownUnit(ctx) /\ input.k = "num") =>
          decErr.kind = "unknown temperature unit"
    /\ (target = "Temperature" /\ pc = "Temperature.MarshalJSONWithContext"
            /\ UnknownUnit(ctx)) =>
          err.kind = "unknown temperature unit"

\* C4, amended: an unrecognized unit in the context of a Temperature decode
\* of a well-formed scalar, or of a Temperature encode, fails with the
\* unrecognized-unit error naming the unit; the decode leaves the
\* destination as it was and the encode returns no value. An unrecognized
\* flags.units at the root does not fail: no Response decode or encode ends
\* in the unrecognized-unit error, and the document is read as Celsius.
Thm_C4 ==
    [][ /\ (target' = "Temperature" /\ pc' = "Temperature.UnmarshalJSONWithContext"
              /\ n' = n + 1 /\ UnknownUnit(ctx') /\ input'.k \in {"num", "null"}) =>
            /\ decErr' = [kind |-> "unknown temperature unit", unit |-> CHOOSE u \in ctx' : TRUE]
            /\ dst' = dst
        /\ (target' = "Temperature" /\ pc' = "Temperature.MarshalJSONWithContext"
              /\ UnknownUnit(ctx')) =>
            /\ err' = [kind |-> "unknown temperature unit", unit |-> CHOOSE u \in ctx' : TRUE]
            /\ out' = Omitted
        /\ target' \in {"Response", "Service"} =>
            /\ err'.kind # "unknown temperature unit"
            /\ (ResponseDecoded' /\ decErr' = NoError /\ input'.k = "obj"
                  /\ WireUnits(input') # "us") =>
                  RecordDecodedAs("", input'.f["currently"], dst'["currently"])
      ]_vars

\* C4 reached: a Temperature that holds a value is handed 72 under the unit
\* "xyz" and keeps its value.
Witness_C4 ==
    /\ target = "Temperature"
    /\ pc = "Temperature.UnmarshalJSONWithContext"
    /\ ctx = {"xyz"}
    /\ input = Num(T72)
    /\ decErr = UnitError("xyz")
    /\ n = 2
    /\ dst = FromCelsuis(T22)

DecodeMethods ==
    {"Temperature.UnmarshalJSON", "Temperature.UnmarshalJSONWithContext",
     "Data.UnmarshalJSONWithContext", "DataSummary.UnmarshalJSONWithContext",
     "Response.UnmarshalJSON"}

\* C5: a decode, or Service.Get, that returns an error leaves no data of the
\* failing input in the destination: a zero destination is still zero.
Cex_C5 ==
    /\ (pc \in DecodeMethods /\ n = 1 /\ decErr # NoError) => dst = ZeroValue(target)
    /\ (pc = "Service.Get" /\ err # NoError) => dst = ZeroResponse

\* Wire group b holds a `data` array.
HasDataArray(b) == b.k = "obj" /\ b.f.data.k = "arr"

\* Record i of the destination is what the record-level decode makes of wire
\* element i under the group's context, the zero record for null.
GroupDecodedInOrder ==
    /\ Len(dst.data) = Len(input.f.data.a)
    /\ \A i \in 1..Len(input.f.data.a) :
          dst.data[i] =
              IF input.f.data.a[i] = Null THEN ZeroData
              ELSE Data_UnmarshalJSONWithContext(ctx, ZeroData, input.f.data.a[i]).val

\* No element of the wire array fails the record-level decode.
ElementsDecode ==
    \A i \in 1..Len(input.f.data.a) :
        \/ input.f.data.a[i] = Null
        \/ Data_UnmarshalJSONWithContext(ctx, ZeroData, input.f.data.a[i]).err = NoError

GroupDecodePart ==
    (target = "DataSummary" /\ pc = "DataSummary.UnmarshalJSONWithContext"
        /\ HasDataArray(input)) =>
        /\ (PlainAccepts("summary", input.f.summary) /\ ElementsDecode) => decErr = NoError
        /\ decErr = NoError => GroupDecodedInOrder

\* C6, as stated: a group decode keeps the order and the length of the wire
\* array, null elements as zero records; a group encode of n records emits
\* a `data` array of n elements in the same order.
Cex_C6 ==
    /\ GroupDecodePart
    /\ (target = "DataSummary" /\ pc = "DataSummary.MarshalJSONWithContext"
            /\ err = NoError) =>
          /\ out.f.data.k = "arr"
          /\ Len(out.f.data.a) = Len(dst.data)
          /\ \A i \in 1..Len(dst.data) :
                out.f.data.a[i] = Data_MarshalJSONWithContext(ctx, dst.data[i]).out

\* C6, amended: as stated for the decode and for the encode of a group of
\* n >= 1 records; a group of no records is encoded with `data` null, not
\* with an empty array.
Thm_C6 ==
    /\ GroupDecodePart
    /\ (target = "DataSummary" /\ pc = "DataSummary.MarshalJSONWithContext"
            /\ err = NoError) =>
          IF Len(dst.data) = 0 THEN out.f.data = Null
          ELSE /\ out.f.data.k = "arr"
               /\ Len(out.f.data.a) = Len(dst.data)
               /\ \A i \in 1..Len(dst.data) :
                     out.f.data.a[i] = Data_MarshalJSONWithContext(ctx, dst.data[i]).out

\* C6 reached: [null, record] decoded to the zero record and the record, in
\* this order, and encoded as two elements.
Witness_C6 ==
    /\ target = "DataSummary"
    /\ pc = "DataSummary.MarshalJSONWithContext"
    /\ n = 1
    /\ decErr = NoError
    /\ err = NoError
    /\ ctx = {"fahrenheit"}
    /\ input = Group(Str("week"), Arr(<<Null, RecFull>>))
    /\ dst.data[1] = ZeroData
    /\ dst.data[2]["temperature"] = FromFahrenheit(T72)
    /\ Len(out.f.data.a) = 2
    /\ out.f.data.a[2].f["temperature"] = Num(T72)

\* No unit reaches the decode: the plain decode, or a context without a
\* unit or with the empty string.
NoUnitSupplied ==
    \/ pc = "Temperature.UnmarshalJSON"
    \/ pc = "Temperature.UnmarshalJSONWithContext" /\ ctx \in {{}, {""}}

\* C7, as stated: a Temperature decode that is handed no unit reads the raw
\* value as Celsius and stores raw + 273.15.
Cex_C7 ==
    (target = "Temperature" /\ NoUnitSupplied /\ input.k = "num") =>
        decErr = NoError /\ dst = input.n + Deg(27315)

\* C7, amended: the plain decode stores raw + 273.15; the context-aware
\* decode under a context without a unit, or with the empty unit, reads the
\* raw value as Kelvin and stores it unchanged.
Thm_C7 ==
    (target = "Temperature" /\ NoUnitSupplied /\ input.k = "num") =>
        /\ decErr = NoError
        /\ dst = IF pc = "Temperature.UnmarshalJSON" THEN input.n + Deg(27315) ELSE input.n

\* C7 reached: 22 decoded under the empty unit is 22 Kelvin.
Witness_C7 ==
    /\ target = "Temperature"
    /\ pc = "Temperature.UnmarshalJSONWithContext"
    /\ ctx = {""}
    /\ input = Num(T22)
    /\ dst = T22

\* C8: what a successful decode leaves in the destination depends on the
\* input and the context alone: it is what the same decode leaves in a zero
\* destination.
Cex_C8 ==
    /\ (target = "Response" /\ pc = "Response.UnmarshalJSON" /\ decErr = NoError) =>
          dst = Response_UnmarshalJSON(ZeroResponse, input).val
    /\ (target = "Data" /\ pc = "Data.UnmarshalJSONWithContext" /\ decErr = NoError) =>
          dst = Data_UnmarshalJSONWithContext(ctx, ZeroData, input).val

\* C9: Service.Get answers a status outside 200..299 with the
\* unsuccessful-status error naming the code, without reading or parsing
\* the body, and returns the zero document; it parses a body only after a
\* transport call that succeeded with a status in 200..299 and a body read
\* to its end.
Thm_C9 ==
    (target = "Service" /\ call.sent) =>
        /\ (call.transportOK /\ ~(call.status >= 200 /\ call.status <= 299)) =>
              /\ err = [kind |-> "invalid statuscode", code |-> call.status]
              /\ ~call.bodyRead
              /\ ~call.parsed
              /\ dst = ZeroResponse
        /\ call.parsed =>
              /\ call.transportOK
              /\ call.status >= 200 /\ call.status <= 299
              /\ call.readOK
              /\ call.bodyRead

\* C9 reached: 404 with a body that would parse.
Witness_C9 ==
    /\ target = "Service"
    /\ call.sent
    /\ call.transportOK
    /\ call.status = 404
    /\ call.readOK
    /\ input = DocFull
    /\ err = StatusError(404)
    /\ dst = ZeroResponse

\* The scalar a record encode emits for the Kelvin value t under context c.
EmittedScalar(c, t) ==
    IF c = {"celsius"} THEN t - Deg(27315)
    ELSE IF c = {"fahrenheit"} THEN ((t - Deg(27315)) * 9) \div 5 + Deg(3200)
    ELSE Float32(t)

DataEncoded == target = "Data" /\ pc = "Data.MarshalJSONWithContext" /\ err = NoError

\* C10, as stated: a record encode leaves out each of the five temperature
\* fields that holds 0 Kelvin (no key), and emits every other one as the
\* scalar converted under the context.
Cex_C10 ==
    DataEncoded =>
        \A f \in TempFields :
            out.f[f] = IF dst[f] = 0 THEN Omitted ELSE Num(EmittedScalar(ctx, dst[f]))

\* C10, amended: a record encode emits no number for a temperature field
\* that holds 0 Kelvin: temperatureHigh and temperatureLow are left out,
\* temperature, apparentTemperature and dewPoint are emitted as null; every
\* other value is emitted as the scalar converted under the context
\* (celsius, fahrenheit, or Kelvin narrowed to float32 without a unit).
Thm_C10 ==
    DataEncoded =>
        \A f \in TempFields :
            out.f[f] = IF dst[f] # 0 THEN Num(EmittedScalar(ctx, dst[f]))
                       ELSE IF f \in {"temperatureHigh", "temperatureLow"} THEN Omitted
                       ELSE Null

\* C10 reached: a record with 0 Kelvin in temperature and in temperatureHigh
\* and a value in apparentTemperature, encoded as Celsius.
Witness_C10 ==
    /\ DataEncoded
    /\ ctx = {"celsius"}
    /\ dst["temperature"] = 0
    /\ dst["temperatureHigh"] = 0
    /\ dst["apparentTemperature"] = FromCelsuis(T22)
    /\ out.f["temperature"] = Null
    /\ out.f["temperatureHigh"] = Omitted
    /\ out.f["apparentTemperature"] = Num(T22)

====
